---- MODULE Spec2Model ----
(***************************************************************************)
(* Model of the plot widgets of pyopenms-extra (src/view):                 *)
(*   TICWidget   - the total-ion-chromatogram plot with peak labels,       *)
(*   ErrorWidget - the mass-error scatter plot,                            *)
(*   SequenceIonsWidget - the peptide sequence with its ions.              *)
(* Python indices are kept 0-based: the element data[i] of the source is   *)
(* At(data, i) here.  Retention times and intensities are integers; the    *)
(* screen geometry is compared by cross-multiplication, so that no         *)
(* fraction is ever rounded.                                               *)
(***************************************************************************)
EXTENDS Integers, Sequences, FiniteSets, TLC

VARIABLES
    pc,          \* the call that returned last ("init" before any call)
    args,        \* the arguments of that call
    ret,         \* the value that call returned
    raised,      \* the exception that left the last handler uncaught, or "none"
    widget,      \* "TIC" or "Error": the widget the state belongs to
    _rts,        \* TICWidget._rts
    _ints,       \* TICWidget._ints
    _peak_indices,                \* TICWidget._peak_indices
    _currentIntensitiesInRange,   \* TICWidget._currentIntensitiesInRange
    _peak_labels, \* TICWidget._peak_labels: label id -> the label item
    orphanItems, \* label items on the plot that _peak_labels no longer holds
    _existTIC,   \* TICWidget._existTIC
    currMaxY,    \* TICWidget.currMaxY / ErrorWidget.currMaxY
    xRange,      \* getAxis("bottom").range, a pair <<lo, hi>>
    _mzs,        \* ErrorWidget._mzs
    _ppm,        \* ErrorWidget._ppm
    _region,     \* TICWidget._region: the region item, or "None"
    emitted,     \* the signals of the widget emitted by the last handler
    _pep,        \* SequenceIonsWidget._pep, the observed_peptide
    WIDTH,       \* SequenceIonsWidget.WIDTH
    HEIGHT,      \* SequenceIonsWidget.HEIGHT
    SUFFIX_HEIGHT \* SequenceIonsWidget.SUFFIX_HEIGHT

vars ==
    << pc, args, ret, raised, widget, _rts, _ints, _peak_indices,
       _currentIntensitiesInRange, _peak_labels, orphanItems, _existTIC,
       currMaxY, xRange, _mzs, _ppm, _region, emitted, _pep, WIDTH, HEIGHT,
       SUFFIX_HEIGHT >>

\* groups of variables, for UNCHANGED
errorVars ==
    << _mzs, _ppm >>

dataVars ==
    << _rts, _ints, _peak_indices, _existTIC >>

labelVars ==
    << _peak_labels, orphanItems >>

viewVars ==
    << xRange, currMaxY >>

regionVars ==
    << _region, emitted >>

seqVars ==
    << _pep, WIDTH, HEIGHT, SUFFIX_HEIGHT >>

\* Python's None where the model holds a collection of at most one object
None ==
    << >>

\* no SequenceIonsWidget was constructed: its class attributes are as the
\* class body leaves them
NoSequenceIonsWidget ==
    /\ _pep = "None"
    /\ WIDTH = 0
    /\ HEIGHT = 0
    /\ SUFFIX_HEIGHT = 0

-----------------------------------------------------------------------------
(* Bounds of the model.                                                    *)

\* longest intensity sequence given to _find_Peak
MaxLen ==
    5

\* largest intensity given to _find_Peak (intensities are 0..MaxInt)
MaxInt ==
    5

\* most samples given to the Range Reducer
MaxN ==
    3

\* largest x (retention time, m/z) given to the Range Reducer
MaxX ==
    2

\* largest |y| (intensity, ppm error) given to the Range Reducer
MaxY ==
    2

\* largest label id given to _add_label (ids are 0..MaxLabelId)
MaxLabelId ==
    2

\* most label items the plot shows without _peak_labels holding them
MaxOrphans ==
    1

\* most samples of a chromatogram whose labels are drawn
MaxDrawSamples ==
    6

\* most samples of a chromatogram given to setTIC in a sequence of calls
MaxSamples ==
    3

\* width and height of the plot's view box, in pixels
ViewWidthPx ==
    48

ViewHeightPx ==
    100

\* font metrics of a label: the width of one character and the height of
\* the text, in pixels
CharWidthPx ==
    7

LabelHeightPx ==
    10

-----------------------------------------------------------------------------
(* Helpers for 0-based arrays.                                             *)

At(a, i) ==
    a[i + 1]

Abs(v) ==
    IF v < 0 THEN -v ELSE v

SeqsUpTo(S, n) ==
    UNION { [1..k -> S] : k \in 0..n }

\* the indices of a set in ascending order, as np.where(...)[0] lists them
RECURSIVE Ascending(_)
Ascending(S) ==
    IF S = {} THEN << >>
    ELSE LET m == CHOOSE v \in S : \A w \in S : v <= w
         IN  << m >> \o Ascending(S \ {m})

-----------------------------------------------------------------------------
(* TICWidget._find_Peak                                                    *)

\* peakValue: -np.inf, or a value of the data
NegInf ==
    [inf |-> TRUE, val |-> 0]

Value(v) ==
    [inf |-> FALSE, val |-> v]

\* InnerLoop, marking the candidate also when the data end on it
RECURSIVE InnerLoopMarksAtEnd(_, _, _)
InnerLoopMarksAtEnd(data, indx, j) ==
    IF j >= Len(data)
    THEN [mark |-> indx + ((j - indx) \div 2), indx |-> indx]
    ELSE IF At(data, indx) < At(data, j) THEN [mark |-> -1, indx |-> indx]
    ELSE IF At(data, indx) = At(data, j)
         THEN InnerLoopMarksAtEnd(data, indx, j + 1)
    ELSE [mark |-> indx + ((j - indx) \div 2), indx |-> j]

\* InnerLoop, marking the index where the descent was confirmed
RECURSIVE InnerLoopMarksDescent(_, _, _)
InnerLoopMarksDescent(data, indx, j) ==
    IF j >= Len(data) THEN [mark |-> -1, indx |-> indx]
    ELSE IF At(data, indx) < At(data, j) THEN [mark |-> -1, indx |-> indx]
    ELSE IF At(data, indx) = At(data, j)
         THEN InnerLoopMarksDescent(data, indx, j + 1)
    ELSE [mark |-> j, indx |-> j]

\* InnerLoop, rounding the midpoint up instead of down
RECURSIVE InnerLoopCeil(_, _, _)
InnerLoopCeil(data, indx, j) ==
    IF j >= Len(data) THEN [mark |-> -1, indx |-> indx]
    ELSE IF At(data, indx) < At(data, j) THEN [mark |-> -1, indx |-> indx]
    ELSE IF At(data, indx) = At(data, j) THEN InnerLoopCeil(data, indx, j + 1)
    ELSE [mark |-> indx + ((j - indx + 1) \div 2), indx |-> j]

\* the inner loop, for j in range(indx, len(data)), at position j.
\* Returns the index it marked (-1: none) and the value indx has afterwards.
RECURSIVE InnerLoop(_, _, _)
InnerLoop(data, indx, j) ==
    IF j >= Len(data) THEN [mark |-> -1, indx |-> indx]
    ELSE IF At(data, indx) < At(data, j) THEN [mark |-> -1, indx |-> indx]
    ELSE IF At(data, indx) = At(data, j) THEN InnerLoop(data, indx, j + 1)
    ELSE [mark |-> indx + ((j - indx) \div 2), indx |-> j]

\* the outer loop, for indx in range(0, len(data), 1), at position indx:
\* range() hands out the next position whatever the body assigned to indx,
\* and only the last statement of the body, peakValue = data[indx], sees
\* the assignment indx = j.
RECURSIVE OuterLoop(_, _, _, _)
OuterLoop(data, indx, peakValue, marks) ==
    IF indx >= Len(data) THEN marks
    ELSE IF peakValue.inf \/ peakValue.val < At(data, indx)
         THEN LET r == InnerLoop(data, indx, indx)
              IN  OuterLoop(data, indx + 1, Value(At(data, r.indx)),
                            IF r.mark >= 0 THEN marks \cup {r.mark} ELSE marks)
         ELSE OuterLoop(data, indx + 1, Value(At(data, indx)), marks)

\* InsertDesc, putting an index behind the indices of equal intensity
RECURSIVE InsertDescUnstable(_, _, _)
InsertDescUnstable(data, x, sortedTail) ==
    IF sortedTail = << >> THEN << x >>
    ELSE IF At(data, x) > At(data, Head(sortedTail))
         THEN << x >> \o sortedTail
         ELSE << Head(sortedTail) >>
                  \o InsertDescUnstable(data, x, Tail(sortedTail))

\* InsertDesc, sorting the lowest intensity first
RECURSIVE InsertAsc(_, _, _)
InsertAsc(data, x, sortedTail) ==
    IF sortedTail = << >> THEN << x >>
    ELSE IF At(data, x) <= At(data, Head(sortedTail))
         THEN << x >> \o sortedTail
         ELSE << Head(sortedTail) >> \o InsertAsc(data, x, Tail(sortedTail))

\* sorted(seq, key=lambda x: data[x], reverse=True): a stable sort, equal
\* keys keep the order they have in seq.  Insertion from the right end.
RECURSIVE InsertDesc(_, _, _)
InsertDesc(data, x, sortedTail) ==
    IF sortedTail = << >> THEN << x >>
    ELSE IF At(data, x) >= At(data, Head(sortedTail))
         THEN << x >> \o sortedTail
         ELSE << Head(sortedTail) >> \o InsertDesc(data, x, Tail(sortedTail))

RECURSIVE SortedDesc(_, _)
SortedDesc(data, seq) ==
    IF seq = << >> THEN << >>
    ELSE InsertDesc(data, Head(seq), SortedDesc(data, Tail(seq)))

_find_Peak(data) ==
    SortedDesc(data, Ascending(OuterLoop(data, 0, NegInf, {})))

-----------------------------------------------------------------------------
(* Specification Spec: _find_Peak on every intensity sequence of the bounds *)

Intensities ==
    SeqsUpTo(0..MaxInt, MaxLen)

Init ==
    /\ pc = "init"
    /\ args = << >>
    /\ ret = << >>
    /\ raised = "none"
    /\ widget = "TIC"
    /\ _rts = << >>
    /\ _ints \in Intensities
    /\ _peak_indices = << >>
    /\ _currentIntensitiesInRange = << >>
    /\ _peak_labels = << >>
    /\ orphanItems = 0
    /\ _existTIC = TRUE
    /\ currMaxY = 0
    /\ xRange = << 0, 1 >>
    /\ _mzs = << >>
    /\ _ppm = << >>
    /\ _region = None
    /\ emitted = << >>
    /\ NoSequenceIonsWidget

CallFindPeak ==
    /\ pc = "init"
    /\ pc' = "find_Peak"
    /\ args' = << >>
    /\ ret' = _find_Peak(_ints)
    /\ UNCHANGED << raised, widget, dataVars, _currentIntensitiesInRange,
                    labelVars, viewVars, errorVars,
                    regionVars, seqVars >>

Next ==
    CallFindPeak

Spec ==
    Init /\ [][Next]_vars

-----------------------------------------------------------------------------
(* The Range Reducer: TICWidget._getMaxIntensityInRange and                *)
(* ErrorWidget._getMaxMassErrorInRange.                                    *)

\* np.searchsorted(a, v, side): the binary search on a[lo:hi]
RECURSIVE BinarySearch(_, _, _, _, _)
BinarySearch(a, v, side, lo, hi) ==
    IF lo >= hi THEN lo
    ELSE LET mid == lo + ((hi - lo) \div 2)
             goRight == IF side = "left" THEN At(a, mid) < v
                                         ELSE At(a, mid) <= v
         IN  IF goRight THEN BinarySearch(a, v, side, mid + 1, hi)
                        ELSE BinarySearch(a, v, side, lo, mid)

SearchSortedLeft(a, v) ==
    BinarySearch(a, v, "left", 0, Len(a))

\* SearchSortedRight with side="left": the end of the slice excluded
SearchSortedRightAsLeft(a, v) ==
    BinarySearch(a, v, "left", 0, Len(a))

SearchSortedRight(a, v) ==
    BinarySearch(a, v, "right", 0, Len(a))

\* the Python slice a[left:right], for 0 <= left and right <= len(a)
Slice(a, left, right) ==
    SubSeq(a, left + 1, right)

\* np.amax(a, initial=initial)
RECURSIVE Amax(_, _)
Amax(a, initial) ==
    IF a = << >> THEN initial
    ELSE LET m == Amax(Tail(a), initial)
         IN  IF Head(a) > m THEN Head(a) ELSE m

\* abs(a), elementwise
AbsAll(a) ==
    [i \in 1..Len(a) |-> Abs(a[i])]

\* the slice _getMaxIntensityInRange stores in _currentIntensitiesInRange
IntensitiesInRange(x, y, xrange) ==
    Slice(y, SearchSortedLeft(x, xrange[1]), SearchSortedRight(x, xrange[2]))

_getMaxIntensityInRange(x, y, xrange) ==
    Amax(IntensitiesInRange(x, y, xrange), 1)

_getMaxMassErrorInRange(x, y, xrange) ==
    Amax(AbsAll(Slice(y, SearchSortedLeft(x, xrange[1]),
                         SearchSortedRight(x, xrange[2]))), 1)

-----------------------------------------------------------------------------
(* Specification SpecRange: the Range Reducer of either widget on every    *)
(* sorted sample sequence and window of the bounds, and on the sample of   *)
(* the specification, x=[0,1,2,3,4], y=[2,-7,3,-1,5], window [1,3].        *)

Sorted(x) ==
    \A i \in 1..(Len(x) - 1) : x[i] <= x[i + 1]

Windows ==
    { w \in (0..MaxX) \X (0..MaxX) : w[1] < w[2] }

SamplesInBounds(x, y, lowestY) ==
    \E n \in 0..MaxN :
        /\ x \in { s \in [1..n -> 0..MaxX] : Sorted(s) }
        /\ y \in [1..n -> lowestY..MaxY]

InitRange ==
    /\ pc = "init"
    /\ args = << >>
    /\ ret = << >>
    /\ raised = "none"
    /\ _peak_indices = << >>
    /\ _currentIntensitiesInRange = << >>
    /\ _peak_labels = << >>
    /\ orphanItems = 0
    /\ _existTIC = TRUE
    /\ currMaxY = 0
    /\ _region = None
    /\ emitted = << >>
    /\ NoSequenceIonsWidget
    /\ \/ /\ widget = "TIC"
          /\ SamplesInBounds(_rts, _ints, 0)
          /\ xRange \in Windows
          /\ _mzs = << >>
          /\ _ppm = << >>
       \/ /\ widget = "Error"
          /\ SamplesInBounds(_mzs, _ppm, -MaxY)
          /\ xRange \in Windows
          /\ _rts = << >>
          /\ _ints = << >>
       \/ /\ widget = "Error"
          /\ _mzs = << 0, 1, 2, 3, 4 >>
          /\ _ppm = << 2, -7, 3, -1, 5 >>
          /\ xRange = << 1, 3 >>
          /\ _rts = << >>
          /\ _ints = << >>

CallGetMaxIntensityInRange ==
    /\ pc = "init"
    /\ widget = "TIC"
    /\ pc' = "getMax"
    /\ _currentIntensitiesInRange' = IntensitiesInRange(_rts, _ints, xRange)
    /\ args' = << xRange >>
    /\ ret' = _getMaxIntensityInRange(_rts, _ints, xRange)
    /\ UNCHANGED << raised, widget, dataVars, labelVars, viewVars,
                    errorVars, regionVars, seqVars >>

CallGetMaxMassErrorInRange ==
    /\ pc = "init"
    /\ widget = "Error"
    /\ pc' = "getMax"
    /\ args' = << xRange >>
    /\ ret' = _getMaxMassErrorInRange(_mzs, _ppm, xRange)
    /\ UNCHANGED << raised, widget, dataVars, _currentIntensitiesInRange,
                    labelVars, viewVars, errorVars,
                    regionVars, seqVars >>

NextRange ==
    \/ CallGetMaxIntensityInRange
    \/ CallGetMaxMassErrorInRange

SpecRange ==
    InitRange /\ [][NextRange]_vars

-----------------------------------------------------------------------------
(* Label placement: _add_label, _remove_label, _clear_labels and           *)
(* _label_clashes.  _peak_labels is a function from the label ids it holds *)
(* to the label items; an item is its text, its position in the view and   *)
(* whether the plot shows it.                                              *)

\* limit_distance = 20.0 * pixel_width
LimitPixels ==
    20

\* the number of digits of the integer part of t >= 0
RECURSIVE Digits(_)
Digits(t) ==
    IF t < 10 THEN 1 ELSE 1 + Digits(t \div 10)

\* the number of characters of "{0:.2f}".format(t), t a whole number >= 0
FormatLength(t) ==
    Digits(t) + 3

\* pg.TextItem(anchor=(0.5, 1)) with setText and setPos, added to the plot
TextItem(label_text, pos_x, pos_y) ==
    [text |-> label_text, x |-> pos_x, y |-> pos_y, shown |-> TRUE]

\* label.mapRectToDevice(label.boundingRect()) in a view that shows
\* xrange[1]..xrange[2] on ViewWidthPx pixels and 0..yTop on ViewHeightPx
\* pixels.  The text is FormatLength * CharWidthPx wide and LabelHeightPx
\* high, centred on the anchor and above it.  Horizontal coordinates are in
\* units of 1 / (2 * (hi - lo)) pixel, vertical ones in units of 1 / yTop
\* pixel, which makes all of them whole numbers.
DeviceRect(label, xrange, yTop) ==
    LET span   == xrange[2] - xrange[1]
        centre == 2 * (label.x - xrange[1]) * ViewWidthPx
        half   == FormatLength(label.text) * CharWidthPx * span
        bottom == (yTop - label.y) * ViewHeightPx
    IN  [left   |-> centre - half,
         right  |-> centre + half,
         top    |-> bottom - LabelHeightPx * yTop,
         bottom |-> bottom]

\* QRectF.intersects
Intersects(r1, r2) ==
    /\ r1.left < r1.right /\ r1.top < r1.bottom
    /\ r2.left < r2.right /\ r2.top < r2.bottom
    /\ ~(r1.left >= r2.right \/ r2.left >= r1.right)
    /\ ~(r1.top >= r2.bottom \/ r2.top >= r1.bottom)

\* distance < limit_distance, with pixel_width = (hi - lo) / ViewWidthPx
WithinLimitDistance(new, exist, xrange) ==
    Abs(new.x - exist.x) * ViewWidthPx
        < LimitPixels * (xrange[2] - xrange[1])

\* one pass of the loop of _label_clashes, which goes on to the next label
\* and forgets what it found
RECURSIVE ClashLoopNoBreak(_, _, _, _, _, _)
ClashLoopNoBreak(labels, new_label, keys, clash, xrange, yTop) ==
    IF keys = << >> THEN clash
    ELSE LET exist_label == Head(keys)
             rest == Tail(keys)
         IN  IF exist_label # new_label
             THEN ClashLoopNoBreak(labels, new_label, rest,
                      \/ Intersects(
                             DeviceRect(labels[new_label], xrange, yTop),
                             DeviceRect(labels[exist_label], xrange, yTop))
                      \/ WithinLimitDistance(labels[new_label],
                                             labels[exist_label], xrange),
                      xrange, yTop)
             ELSE ClashLoopNoBreak(labels, new_label, rest, clash,
                                   xrange, yTop)

\* the loop of _label_clashes, for exist_label in list(self._peak_labels),
\* at the keys still to visit
RECURSIVE ClashLoop(_, _, _, _, _, _)
ClashLoop(labels, new_label, keys, clash, xrange, yTop) ==
    IF keys = << >> THEN clash
    ELSE LET exist_label == Head(keys)
             rest == Tail(keys)
         IN  IF exist_label # new_label
             THEN IF ~Intersects(
                         DeviceRect(labels[new_label], xrange, yTop),
                         DeviceRect(labels[exist_label], xrange, yTop))
                  THEN IF WithinLimitDistance(labels[new_label],
                                              labels[exist_label], xrange)
                       THEN TRUE
                       ELSE ClashLoop(labels, new_label, rest, FALSE,
                                      xrange, yTop)
                  ELSE TRUE
             ELSE IF Cardinality(DOMAIN labels) = 1
                  THEN ClashLoop(labels, new_label, rest, FALSE, xrange, yTop)
                  ELSE ClashLoop(labels, new_label, rest, clash, xrange, yTop)

\* The keys are visited in ascending order here; the dict hands them out in
\* the order of insertion.  The loop leaves at the first clash and a pass
\* without a clash sets FALSE, so the result is the same in any order.
_label_clashes(labels, label_id, xrange, yTop) ==
    IF DOMAIN labels = {} THEN FALSE
    ELSE ClashLoop(labels, label_id, Ascending(DOMAIN labels), FALSE,
                   xrange, yTop)

\* del self._peak_labels[label_id]
Without(labels, label_id) ==
    [k \in (DOMAIN labels) \ {label_id} |-> labels[k]]

\* _add_label: the item is stored under label_id and added to the plot; an
\* item the id held before stays on the plot, held by nothing.  Then
\* _remove_label takes a clashing item from the plot and from _peak_labels.
_add_label(labels, orphans, label_id, label_text, pos_x, pos_y, xrange, yTop) ==
    LET label == TextItem(label_text, pos_x, pos_y)
        added == [k \in (DOMAIN labels) \cup {label_id} |->
                      IF k = label_id THEN label ELSE labels[k]]
        left  == IF label_id \in DOMAIN labels /\ labels[label_id].shown
                 THEN orphans + 1 ELSE orphans
    IN  IF _label_clashes(added, label_id, xrange, yTop)
        THEN [labels |-> Without(added, label_id), orphans |-> left]
        ELSE [labels |-> added, orphans |-> left]

\* _clear_labels: every item _peak_labels holds is taken from the plot
_clear_labels(labels) ==
    << >>

-----------------------------------------------------------------------------
(* Specification SpecLabel: _add_label and _clear_labels in any order, at  *)
(* a zoom that Init chooses and nothing changes.                           *)

LabelIds ==
    0..MaxLabelId

\* pos_x: retention times in minutes; the only caller, _draw_peak_label,
\* gives the retention time as label_text and as pos_x
LabelXs ==
    {8, 9, 11}

\* pos_y: relative intensities in percent
LabelYs ==
    {0, 100}

\* the visible x-ranges: 24 and 12 pixels per minute
LabelRanges ==
    { << 8, 10 >>, << 8, 12 >> }

InitLabel ==
    /\ pc = "init"
    /\ args = << >>
    /\ ret = << >>
    /\ raised = "none"
    /\ widget = "TIC"
    /\ _rts = << >>
    /\ _ints = << >>
    /\ _peak_indices = << >>
    /\ _currentIntensitiesInRange = << >>
    /\ _peak_labels = << >>
    /\ orphanItems = 0
    /\ _existTIC = TRUE
    /\ currMaxY = 100
    /\ xRange \in LabelRanges
    /\ _mzs = << >>
    /\ _ppm = << >>
    /\ _region = None
    /\ emitted = << >>
    /\ NoSequenceIonsWidget

CallAddLabel(label_id, label_text, pos_x, pos_y) ==
    /\ (label_id \in DOMAIN _peak_labels /\ _peak_labels[label_id].shown)
           => orphanItems < MaxOrphans
    /\ LET r == _add_label(_peak_labels, orphanItems, label_id, label_text,
                           pos_x, pos_y, xRange, currMaxY)
       IN  /\ _peak_labels' = r.labels
           /\ orphanItems' = r.orphans
    /\ pc' = "add_label"
    /\ args' = << label_id, label_text, pos_x, pos_y >>
    /\ ret' = << >>
    /\ UNCHANGED << raised, widget, dataVars, _currentIntensitiesInRange,
                    viewVars, errorVars,
                    regionVars, seqVars >>

CallClearLabels ==
    /\ _peak_labels' = _clear_labels(_peak_labels)
    /\ pc' = "clear_labels"
    /\ args' = << >>
    /\ ret' = << >>
    /\ UNCHANGED << raised, widget, dataVars, _currentIntensitiesInRange,
                    orphanItems, viewVars, errorVars,
                    regionVars, seqVars >>

NextLabel ==
    \/ \E label_id \in LabelIds, pos_x \in LabelXs, pos_y \in LabelYs :
           CallAddLabel(label_id, pos_x, pos_x, pos_y)
    \/ CallClearLabels

SpecLabel ==
    InitLabel /\ [][NextLabel]_vars

-----------------------------------------------------------------------------
(* The TIC widget as a whole.  A method of the widget is an operator from  *)
(* the widget (a record of its fields, self) to the widget it leaves.  An  *)
(* exception stops the method where it is raised: self.raised names it and *)
(* the statements behind it do nothing.                                    *)

Self ==
    [_rts |-> _rts,
     _ints |-> _ints,
     _peak_indices |-> _peak_indices,
     _currentIntensitiesInRange |-> _currentIntensitiesInRange,
     _peak_labels |-> _peak_labels,
     orphanItems |-> orphanItems,
     _existTIC |-> _existTIC,
     currMaxY |-> currMaxY,
     xRange |-> xRange,
     _region |-> _region,
     emitted |-> emitted,
     raised |-> raised]

\* TICWidget.__init__
NewTICWidget ==
    [_rts |-> << >>,
     _ints |-> << >>,
     _peak_indices |-> << >>,
     _currentIntensitiesInRange |-> << >>,
     _peak_labels |-> << >>,
     orphanItems |-> 0,
     _existTIC |-> TRUE,
     currMaxY |-> 0,
     xRange |-> << 0, 1 >>,
     _region |-> None,
     emitted |-> << >>,
     raised |-> "none"]

\* np.amin(a), a not empty
RECURSIVE Amin(_)
Amin(a) ==
    IF Len(a) = 1 THEN a[1]
    ELSE LET m == Amin(Tail(a)) IN IF a[1] < m THEN a[1] ELSE m

\* value in a, for a numpy array a
Contains(a, value) ==
    \E k \in 1..Len(a) : a[k] = value

\* the loop of _draw_peak_label, for index in self._peak_indices.  A stale
\* index behind the end of _ints raises IndexError and leaves the labels
\* added before it.
RECURSIVE DrawLoop(_, _)
DrawLoop(self, indices) ==
    IF indices = << >> THEN self
    ELSE LET index == Head(indices)
         IN  IF index >= Len(self._ints)
             THEN [self EXCEPT !.raised = "IndexError"]
             ELSE IF Contains(self._currentIntensitiesInRange,
                              At(self._ints, index))
             THEN LET r == _add_label(self._peak_labels, self.orphanItems,
                               index, At(self._rts, index),
                               At(self._rts, index), At(self._ints, index),
                               self.xRange, self.currMaxY)
                  IN  DrawLoop([self EXCEPT !._peak_labels = r.labels,
                                            !.orphanItems = r.orphans],
                               Tail(indices))
             ELSE DrawLoop(self, Tail(indices))

_draw_peak_label(self) ==
    IF self.raised # "none" THEN self
    ELSE IF DOMAIN self._peak_labels = {}
         THEN DrawLoop(self, self._peak_indices)
         ELSE self

_redrawLabels(self) ==
    _draw_peak_label(
        [self EXCEPT !._peak_labels = _clear_labels(self._peak_labels)])

\* np.amin and np.amax raise ValueError on an empty array
_autoscaleYAxis(self) ==
    IF self.raised # "none" THEN self
    ELSE IF self.xRange = << 0, 1 >> /\ self._rts = << >>
    THEN [self EXCEPT !.raised = "ValueError"]
    ELSE LET x_range == IF self.xRange = << 0, 1 >>
                        THEN << Amin(self._rts), Amax(Tail(self._rts),
                                                      Head(self._rts)) >>
                        ELSE self.xRange
             scaled == [self EXCEPT
                 !._currentIntensitiesInRange =
                     IntensitiesInRange(self._rts, self._ints, x_range),
                 !.currMaxY =
                     _getMaxIntensityInRange(self._rts, self._ints, x_range)]
         IN  IF scaled.currMaxY # 0 THEN _redrawLabels(scaled) ELSE scaled

\* plot(clear=True) takes every item from the plot, the label items too
redrawPlot(self) ==
    _draw_peak_label(
        [self EXCEPT
            !._peak_labels = [k \in DOMAIN self._peak_labels |->
                                 [self._peak_labels[k] EXCEPT !.shown = FALSE]],
            !.orphanItems = 0,
            !._region = [i \in DOMAIN self._region |->
                            [self._region[i] EXCEPT !.shown = FALSE]]])

checkExistTIC(self) ==
    IF Len(self._rts) = 0 THEN [self EXCEPT !._existTIC = FALSE] ELSE self

\* x / 60; the retention times of the model are whole minutes
_rts_in_min(self) ==
    [self EXCEPT !._rts = [i \in 1..Len(self._rts) |-> self._rts[i] \div 60]]

\* (x / maxInt) * 100; the intensities of the model are 0, 1, 2 and 4, of
\* which the largest divides 100 * x
_relative_ints(self) ==
    LET maxInt == Amax(Tail(self._ints), Head(self._ints))
    IN  [self EXCEPT !._ints = [i \in 1..Len(self._ints) |->
                                    (self._ints[i] * 100) \div maxInt]]

setTIC(self, chromatogram) ==
    LET cleared == IF DOMAIN self._peak_labels # {}
                   THEN [self EXCEPT !._peak_labels =
                                         _clear_labels(self._peak_labels)]
                   ELSE self
        loaded  == [cleared EXCEPT !._rts = chromatogram.rts,
                                   !._ints = chromatogram.ints]
        checked == checkExistTIC(loaded)
    IN  IF checked._existTIC
        THEN LET relative == _relative_ints(_rts_in_min(checked))
                 found == [relative EXCEPT
                              !._peak_indices = _find_Peak(relative._ints)]
             IN  redrawPlot(_autoscaleYAxis(found))
        ELSE checked

\* the widget is the widget self
Is(self) ==
    /\ _rts = self._rts
    /\ _ints = self._ints
    /\ _peak_indices = self._peak_indices
    /\ _currentIntensitiesInRange = self._currentIntensitiesInRange
    /\ _peak_labels = self._peak_labels
    /\ orphanItems = self.orphanItems
    /\ _existTIC = self._existTIC
    /\ currMaxY = self.currMaxY
    /\ xRange = self.xRange
    /\ _region = self._region
    /\ emitted = self.emitted
    /\ raised = self.raised

\* the widget becomes the widget self
Becomes(self) ==
    /\ _rts' = self._rts
    /\ _ints' = self._ints
    /\ _peak_indices' = self._peak_indices
    /\ _currentIntensitiesInRange' = self._currentIntensitiesInRange
    /\ _peak_labels' = self._peak_labels
    /\ orphanItems' = self.orphanItems
    /\ _existTIC' = self._existTIC
    /\ currMaxY' = self.currMaxY
    /\ xRange' = self.xRange
    /\ _region' = self._region
    /\ emitted' = self.emitted
    /\ raised' = self.raised

\* the widget as a handler finds it: nothing emitted yet
Entered ==
    [Self EXCEPT !.emitted = << >>]

\* the chromatograms of the model: one sample a minute from 0 on (get_peaks
\* gives the retention times in seconds), intensities 0, 1, 2 and 4, not
\* all of them 0
RawInts ==
    {0, 1, 2, 4}

Chromatograms(n) ==
    { [rts |-> [i \in 1..k |-> 60 * (i - 1)], ints |-> y] :
          k \in 0..n, y \in SeqsUpTo(RawInts, n) }

ChromatogramsUpTo(n) ==
    { c \in Chromatograms(n) :
          /\ Len(c.rts) = Len(c.ints)
          /\ (Len(c.ints) > 0 => \E i \in 1..Len(c.ints) : c.ints[i] > 0) }

\* the x-ranges the axis takes: the range before any data is shown, and
\* ranges of 2, 4 and 6 minutes
AxisRanges ==
    { << 0, 1 >>, << 0, 2 >>, << 2, 6 >>, << 0, 6 >> }

\* sigXRangeChanged: the view box shows a new x-range, _autoscaleYAxis runs.
\* An exception that leaves a slot uncaught ends the application, no
\* handler runs after it.
XRangeChanged(x_range) ==
    /\ raised = "none"
    /\ x_range # xRange
    /\ Becomes(_autoscaleYAxis([Entered EXCEPT !.xRange = x_range]))
    /\ pc' = "autoscaleYAxis"
    /\ args' = << x_range >>
    /\ ret' = << >>
    /\ UNCHANGED << widget, errorVars, seqVars >>

CallSetTIC(chromatogram) ==
    /\ raised = "none"
    /\ Becomes(setTIC(Entered, chromatogram))
    /\ pc' = "setTIC"
    /\ args' = << chromatogram >>
    /\ ret' = << >>
    /\ UNCHANGED << widget, errorVars, seqVars >>

-----------------------------------------------------------------------------
(* Specification SpecDraw: a widget that was given a chromatogram, and the *)
(* x-range changing under it.                                              *)

InitDraw ==
    /\ pc = "setTIC"
    /\ \E c \in ChromatogramsUpTo(MaxDrawSamples) :
           /\ args = << c >>
           /\ Is(setTIC(NewTICWidget, c))
    /\ ret = << >>
    /\ widget = "TIC"
    /\ _mzs = << >>
    /\ _ppm = << >>
    /\ NoSequenceIonsWidget

NextDraw ==
    \E x_range \in AxisRanges : XRangeChanged(x_range)

SpecDraw ==
    InitDraw /\ [][NextDraw]_vars

-----------------------------------------------------------------------------
(* Specification SpecWidget: a new widget, chromatograms set one after the *)
(* other and the x-range changing in between.                              *)

InitWidget ==
    /\ pc = "init"
    /\ args = << >>
    /\ ret = << >>
    /\ Is(NewTICWidget)
    /\ widget = "TIC"
    /\ _mzs = << >>
    /\ _ppm = << >>
    /\ NoSequenceIonsWidget

NextWidget ==
    \/ \E c \in ChromatogramsUpTo(MaxSamples) : CallSetTIC(c)
    \/ \E x_range \in AxisRanges : XRangeChanged(x_range)

SpecWidget ==
    InitWidget /\ [][NextWidget]_vars

-----------------------------------------------------------------------------
(* The closest data point of a clicked position.                           *)

\* a[idx] raises IndexError for an index outside -size .. size - 1
OutOfBounds(a, idx) ==
    idx >= Len(a) \/ idx < -Len(a)

\* the value the function returns, or the exception it raises
Return(value) ==
    [raised |-> "none", value |-> value]

Raise(exception) ==
    [raised |-> exception, value |-> -1]

\* _calculate_closest_datapoint without the comparison of the two distances
ClosestIsLarger(rts, point_x) ==
    LET found == SearchSortedLeft(rts, point_x)
        larger_idx == IF found >= Len(rts) THEN found - 1 ELSE found
    IN  IF OutOfBounds(rts, larger_idx)
        THEN Raise("IndexError")
        ELSE Return(larger_idx)

\* _calculate_closest_datapoint without larger_idx -= 1
ClosestUnclamped(rts, point_x) ==
    LET larger_idx == SearchSortedLeft(rts, point_x)
        smaller_idx == IF larger_idx > 0 THEN larger_idx - 1 ELSE 0
    IN  IF OutOfBounds(rts, larger_idx) \/ OutOfBounds(rts, smaller_idx)
        THEN Raise("IndexError")
        ELSE IF Abs(At(rts, larger_idx) - point_x)
                    < Abs(At(rts, smaller_idx) - point_x)
             THEN Return(larger_idx)
             ELSE Return(smaller_idx)

\* on an empty array larger_idx becomes -1 and self._rts[-1] raises
_calculate_closest_datapoint(rts, point_x) ==
    LET found == SearchSortedLeft(rts, point_x)
        larger_idx == IF found >= Len(rts) THEN found - 1 ELSE found
        smaller_idx == IF larger_idx > 0 THEN larger_idx - 1 ELSE 0
    IN  IF OutOfBounds(rts, larger_idx) \/ OutOfBounds(rts, smaller_idx)
        THEN Raise("IndexError")
        ELSE IF Abs(At(rts, larger_idx) - point_x)
                    < Abs(At(rts, smaller_idx) - point_x)
             THEN Return(larger_idx)
             ELSE Return(smaller_idx)

-----------------------------------------------------------------------------
(* Specification SpecClosest: _calculate_closest_datapoint on sorted       *)
(* retention times, equal ones among them, and a clicked position.         *)

\* the retention times are 0..MaxRT, at most MaxRTs of them
MaxRT ==
    4

MaxRTs ==
    3

RetentionTimes ==
    { x \in SeqsUpTo(0..MaxRT, MaxRTs) : Sorted(x) }

\* the clicked positions: from before the first to behind the last
Positions ==
    (-1)..(MaxRT + 1)

InitClosest ==
    /\ pc = "init"
    /\ args = << >>
    /\ ret = << >>
    /\ raised = "none"
    /\ widget = "TIC"
    /\ _rts \in RetentionTimes
    /\ _ints = << >>
    /\ _peak_indices = << >>
    /\ _currentIntensitiesInRange = << >>
    /\ _peak_labels = << >>
    /\ orphanItems = 0
    /\ _existTIC = TRUE
    /\ currMaxY = 0
    /\ xRange = << 0, 1 >>
    /\ _mzs = << >>
    /\ _ppm = << >>
    /\ _region = None
    /\ emitted = << >>
    /\ NoSequenceIonsWidget

CallCalculateClosestDatapoint(point_x) ==
    /\ pc = "init"
    /\ pc' = "calculate_closest_datapoint"
    /\ args' = << point_x >>
    /\ LET closest == _calculate_closest_datapoint(_rts, point_x)
       IN  /\ ret' = closest.value
           /\ raised' = closest.raised
    /\ UNCHANGED << widget, dataVars, _currentIntensitiesInRange, labelVars,
                    viewVars, errorVars, regionVars, seqVars >>

NextClosest ==
    \E point_x \in Positions : CallCalculateClosestDatapoint(point_x)

SpecClosest ==
    InitClosest /\ [][NextClosest]_vars

-----------------------------------------------------------------------------
(* The mouse on the TIC widget: clicks, double clicks, and the region the  *)
(* user selects.  _region holds at most one region item; the item knows    *)
(* its two bounds, whether the mouse hovers over it, whether it is an item *)
(* of the plot (shown), and how many times _rtRegionBounds is connected to *)
(* its sigRegionChangeFinished.  setRegion is taken to move the lines      *)
(* without emitting sigRegionChangeFinished itself.                        *)

\* pg.LinearRegionItem(), setRegion((rgn_start, rgn_start)), addItem
LinearRegionItem(rgn_start) ==
    << [region |-> << rgn_start, rgn_start >>,
        mouseHovering |-> FALSE,
        shown |-> TRUE,
        connected |-> 0] >>

\* LinearRegionItem.getRegion: the two bounds, the lower one first
getRegion(item) ==
    IF item.region[1] <= item.region[2]
    THEN item.region
    ELSE << item.region[2], item.region[1] >>

\* signal.emit(values)
Emit(self, signal, values) ==
    [self EXCEPT !.emitted = Append(@, [signal |-> signal, args |-> values])]

_rtRegionBounds(self) ==
    LET region_bounds == getRegion(self._region[1])
        start_rg == region_bounds[1]
        stop_rg_idx == _calculate_closest_datapoint(self._rts,
                                                    region_bounds[2])
    IN  IF stop_rg_idx.raised # "none"
        THEN [self EXCEPT !.raised = stop_rg_idx.raised]
        ELSE LET stop_rg == At(self._rts, stop_rg_idx.value)
             IN  Emit([self EXCEPT !._region[1].region =
                                       << start_rg, stop_rg >>],
                      "sigSeleRTRegionChangeFinished",
                      << start_rg, stop_rg >>)

_delete_region(self) ==
    IF self._region[1].mouseHovering
    THEN [self EXCEPT !._region = None]
    ELSE self

\* inside: self.sceneBoundingRect().contains(pos); x: mouse_point.x()
_clicked(self, inside, x) ==
    IF self._existTIC
    THEN LET closest_datapoint_idx ==
                 _calculate_closest_datapoint(self._rts, x)
             clicked ==
                 IF ~inside THEN self
                 ELSE IF closest_datapoint_idx.raised # "none"
                 THEN [self EXCEPT !.raised = closest_datapoint_idx.raised]
                 ELSE Emit(self, "sigRTClicked",
                           << At(self._rts, closest_datapoint_idx.value) >>)
         IN  IF clicked.raised = "none" /\ clicked._region # None
             THEN [clicked EXCEPT !._region[1].connected = @ + 1]
             ELSE clicked
    ELSE self

\* the try catches ValueError only; the IndexError of an empty _rts leaves
\* the handler
mouseDoubleClickEvent(self, x) ==
    LET closest_datapoint_idx == _calculate_closest_datapoint(self._rts, x)
    IN  IF closest_datapoint_idx.raised # "none"
        THEN [self EXCEPT !.raised = closest_datapoint_idx.raised]
        ELSE LET rgn_start == At(self._rts, closest_datapoint_idx.value)
             IN  _delete_region(
                     IF self._region = None
                     THEN [self EXCEPT !._region = LinearRegionItem(rgn_start)]
                     ELSE self)

\* x: the view position of self.lastMousePos
_rgn_shortcut(self, x) ==
    IF self._region = None
    THEN [self EXCEPT !._region = LinearRegionItem(x)]
    ELSE self

\* sigRegionChangeFinished runs every connection of _rtRegionBounds, one
\* after the other
RECURSIVE Slots(_, _)
Slots(self, connections) ==
    IF connections = 0 \/ self.raised # "none" THEN self
    ELSE Slots(_rtRegionBounds(self), connections - 1)

-----------------------------------------------------------------------------
(* Specification SpecMouse: a new widget, chromatograms set, and the mouse *)
(* clicking, double clicking, hovering and dragging the region.            *)

\* the chromatograms have at most MaxClickSamples samples
MaxClickSamples ==
    2

\* _rtRegionBounds is connected to one region at most MaxConnections times
MaxConnections ==
    2

\* the chromatograms under the mouse: intensities 0 and 1
MouseChromatograms ==
    { c \in ChromatogramsUpTo(MaxClickSamples) :
          \A i \in 1..Len(c.ints) : c.ints[i] <= 1 }

\* the view positions of the mouse: the minutes of the samples and one
\* behind them
MouseXs ==
    0..MaxClickSamples

Clicked(inside, x) ==
    /\ raised = "none"
    /\ (_region # None => _region[1].connected < MaxConnections)
    /\ Becomes(_clicked(Entered, inside, x))
    /\ pc' = "clicked"
    /\ args' = << inside, x >>
    /\ ret' = << >>
    /\ UNCHANGED << widget, errorVars, seqVars >>

MouseDoubleClick(x) ==
    /\ raised = "none"
    /\ Becomes(mouseDoubleClickEvent(Entered, x))
    /\ pc' = "mouseDoubleClickEvent"
    /\ args' = << x >>
    /\ ret' = << >>
    /\ UNCHANGED << widget, errorVars, seqVars >>

RgnShortcut(x) ==
    /\ raised = "none"
    /\ Becomes(_rgn_shortcut(Entered, x))
    /\ pc' = "rgn_shortcut"
    /\ args' = << x >>
    /\ ret' = << >>
    /\ UNCHANGED << widget, errorVars, seqVars >>

\* LinearRegionItem.hoverEvent: the mouse comes over the region of the plot
\* or leaves it
HoverEvent(hovering) ==
    /\ raised = "none"
    /\ _region # None
    /\ _region[1].shown
    /\ _region[1].mouseHovering # hovering
    /\ Becomes([Entered EXCEPT !._region[1].mouseHovering = hovering])
    /\ pc' = "hoverEvent"
    /\ args' = << hovering >>
    /\ ret' = << >>
    /\ UNCHANGED << widget, errorVars, seqVars >>

\* the user drags the region of the plot to start .. end and lets go: the
\* region emits sigRegionChangeFinished once
RegionChangeFinished(start, end) ==
    /\ raised = "none"
    /\ _region # None
    /\ _region[1].shown
    /\ start <= end
    /\ Becomes(Slots([Entered EXCEPT !._region[1].region = << start, end >>],
                     _region[1].connected))
    /\ pc' = "sigRegionChangeFinished"
    /\ args' = << start, end >>
    /\ ret' = << >>
    /\ UNCHANGED << widget, errorVars, seqVars >>

InitMouse ==
    /\ pc = "init"
    /\ args = << >>
    /\ ret = << >>
    /\ Is(NewTICWidget)
    /\ widget = "TIC"
    /\ _mzs = << >>
    /\ _ppm = << >>
    /\ NoSequenceIonsWidget

NextMouse ==
    \/ \E c \in MouseChromatograms : CallSetTIC(c)
    \/ \E inside \in BOOLEAN, x \in MouseXs : Clicked(inside, x)
    \/ \E x \in MouseXs : MouseDoubleClick(x)
    \/ \E x \in MouseXs : RgnShortcut(x)
    \/ \E hovering \in BOOLEAN : HoverEvent(hovering)
    \/ \E start \in MouseXs, end \in MouseXs : RegionChangeFinished(start, end)

SpecMouse ==
    InitMouse /\ [][NextMouse]_vars

-----------------------------------------------------------------------------
(* The SequenceIons widget.  A method is an operator from the widget (its  *)
(* observed_peptide _pep and the class attributes WIDTH, HEIGHT and        *)
(* SUFFIX_HEIGHT) to the widget it leaves.  The minimum size of _pep and   *)
(* the fixed height of the widget are set from WIDTH and HEIGHT behind     *)
(* every _resize, so they are the values of WIDTH and HEIGHT.  A peptide   *)
(* is the sequence of its letters, a dict of ions a function from the      *)
(* position to the list of the ions there.                                 *)

\* QFontMetricsF(self._pep.getFont_Pep()).height(), in pixels
height_pep ==
    34

\* QFontMetricsF(self._pep.getFont_Ion()).height(), in pixels
height_ion ==
    12

SeqSelf ==
    [_pep |-> _pep,
     WIDTH |-> WIDTH,
     HEIGHT |-> HEIGHT,
     SUFFIX_HEIGHT |-> SUFFIX_HEIGHT]

\* observed_peptide.initUI
observed_peptide ==
    [sequence |-> << >>,
     seqLength |-> 0,
     suffix |-> << >>,
     prefix |-> << >>]

\* len(ions[max(ions, key=lambda key: len(ions[key]))]), ions not empty
MaxIons(ions, keys) ==
    CHOOSE n \in { Len(ions[k]) : k \in keys } :
        \A k \in keys : Len(ions[k]) <= n

_resize(self) ==
    LET prefix == self._pep.prefix
        suffix == self._pep.suffix
        max_ion_suff == IF DOMAIN suffix = {} THEN 1
                        ELSE MaxIons(suffix, DOMAIN suffix)
        max_ion_pre == IF DOMAIN prefix = {} THEN 1
                       ELSE MaxIons(prefix, DOMAIN prefix)
        height_ion_pre == height_ion * max_ion_pre + 15
        suffix_height == height_ion * max_ion_suff + 5
    IN  [self EXCEPT
            !.WIDTH = IF self._pep.seqLength # 0
                      THEN self._pep.seqLength * 18
                               + (self._pep.seqLength - 1) * 8
                      ELSE @,
            !.SUFFIX_HEIGHT = suffix_height,
            !.HEIGHT = height_pep + height_ion_pre + suffix_height]

updateWindowSize(self) ==
    _resize(self)

setPeptide(self, seq) ==
    updateWindowSize([self EXCEPT !._pep.sequence = seq,
                                  !._pep.seqLength = Len(seq)])

setSuffix(self, suff) ==
    updateWindowSize([self EXCEPT !._pep.suffix = suff])

setPrefix(self, pre) ==
    updateWindowSize([self EXCEPT !._pep.prefix = pre])

clear(self) ==
    [self EXCEPT !._pep.sequence = << >>,
                 !._pep.suffix = << >>,
                 !._pep.prefix = << >>]

\* SequenceIonsWidget.__init__, the first widget of the program
NewSequenceIonsWidget ==
    _resize([_pep |-> observed_peptide,
             WIDTH |-> 0,
             HEIGHT |-> 0,
             SUFFIX_HEIGHT |-> 0])

SeqBecomes(self) ==
    /\ _pep' = self._pep
    /\ WIDTH' = self.WIDTH
    /\ HEIGHT' = self.HEIGHT
    /\ SUFFIX_HEIGHT' = self.SUFFIX_HEIGHT

-----------------------------------------------------------------------------
(* Specification SpecSequence: a new SequenceIons widget and the calls of  *)
(* its methods.                                                            *)

\* a peptide has at most MaxPeptideLen letters
MaxPeptideLen ==
    2

\* at most MaxStack ions are stacked at a position
MaxStack ==
    2

Peptides ==
    SeqsUpTo({"A", "K"}, MaxPeptideLen)

\* the dicts of ions: none, or ions at the first position
IonDicts ==
    { << >> } \cup { [k \in {1} |-> ions] :
                         ions \in SeqsUpTo({"b1"}, MaxStack) \ { << >> } }

InitSequence ==
    /\ pc = "init"
    /\ args = << >>
    /\ ret = << >>
    /\ raised = "none"
    /\ widget = "SequenceIons"
    /\ _rts = << >>
    /\ _ints = << >>
    /\ _peak_indices = << >>
    /\ _currentIntensitiesInRange = << >>
    /\ _peak_labels = << >>
    /\ orphanItems = 0
    /\ _existTIC = TRUE
    /\ currMaxY = 0
    /\ xRange = << 0, 1 >>
    /\ _mzs = << >>
    /\ _ppm = << >>
    /\ _region = None
    /\ emitted = << >>
    /\ _pep = NewSequenceIonsWidget._pep
    /\ WIDTH = NewSequenceIonsWidget.WIDTH
    /\ HEIGHT = NewSequenceIonsWidget.HEIGHT
    /\ SUFFIX_HEIGHT = NewSequenceIonsWidget.SUFFIX_HEIGHT

ticVars ==
    << raised, widget, dataVars, _currentIntensitiesInRange, labelVars,
       viewVars, errorVars, regionVars >>

CallSetPeptide(seq) ==
    /\ SeqBecomes(setPeptide(SeqSelf, seq))
    /\ pc' = "setPeptide"
    /\ args' = << seq >>
    /\ UNCHANGED << ret, ticVars >>

CallSetSuffix(suff) ==
    /\ SeqBecomes(setSuffix(SeqSelf, suff))
    /\ pc' = "setSuffix"
    /\ args' = << suff >>
    /\ UNCHANGED << ret, ticVars >>

CallSetPrefix(pre) ==
    /\ SeqBecomes(setPrefix(SeqSelf, pre))
    /\ pc' = "setPrefix"
    /\ args' = << pre >>
    /\ UNCHANGED << ret, ticVars >>

CallUpdateWindowSize ==
    /\ SeqBecomes(updateWindowSize(SeqSelf))
    /\ pc' = "updateWindowSize"
    /\ args' = << >>
    /\ UNCHANGED << ret, ticVars >>

CallClear ==
    /\ SeqBecomes(clear(SeqSelf))
    /\ pc' = "clear"
    /\ args' = << >>
    /\ UNCHANGED << ret, ticVars >>

NextSequence ==
    \/ \E seq \in Peptides : CallSetPeptide(seq)
    \/ \E suff \in IonDicts : CallSetSuffix(suff)
    \/ \E pre \in IonDicts : CallSetPrefix(pre)
    \/ CallUpdateWindowSize
    \/ CallClear

SpecSequence ==
    InitSequence /\ [][NextSequence]_vars

-----------------------------------------------------------------------------
(* Claims about _find_Peak, checked under Spec.                            *)

Returned ==
    pc = "find_Peak"

Indices(seq) ==
    { seq[p] : p \in 1..Len(seq) }

StrictlyIncreasing(data) ==
    \A i \in 0..(Len(data) - 2) : At(data, i) < At(data, i + 1)

StrictlyDecreasing(data) ==
    \A i \in 0..(Len(data) - 2) : At(data, i) > At(data, i + 1)

\* C1 as stated: a strictly increasing sequence has exactly one peak, its
\* final index.
C1_Original ==
    (Returned /\ Len(_ints) >= 1 /\ StrictlyIncreasing(_ints))
        => ret = << Len(_ints) - 1 >>

\* C1 as amended: a strictly increasing sequence has no peak at all; the
\* data end before a descent confirms the last candidate.
C1_IncreasingHasNoPeak ==
    (Returned /\ StrictlyIncreasing(_ints)) => ret = << >>

C1_Witness ==
    Returned /\ StrictlyIncreasing(_ints) /\ Len(_ints) >= 3

\* a run of equal values at a..b that is followed by a strictly lower value
RunBeforeDescent(data, a, b) ==
    /\ a <= b
    /\ b + 1 < Len(data)
    /\ \A i \in a..b : At(data, i) = At(data, a)
    /\ At(data, b + 1) < At(data, a)
    /\ (a > 0 => At(data, a - 1) # At(data, a))

\* C2: one index per plateau: a run of equal values followed by a strictly
\* lower value never has two or more of its indices in the result, and a
\* flat-topped peak (the run starts the data or follows a lower value) has
\* exactly one.
C2_OneIndexPerPlateau ==
    Returned =>
        \A a \in 0..(Len(_ints) - 1) : \A b \in a..(Len(_ints) - 1) :
            RunBeforeDescent(_ints, a, b) =>
                LET inRun == Indices(ret) \cap (a..b)
                IN  /\ Cardinality(inRun) <= 1
                    /\ (a = 0 \/ At(_ints, a - 1) < At(_ints, a))
                           => Cardinality(inRun) = 1

\* C3: every returned index is a local maximum, its value is at least the
\* value of each neighbour that exists.
C3_LocalMaximum ==
    Returned =>
        \A i \in Indices(ret) :
            /\ i \in 0..(Len(_ints) - 1)
            /\ (i > 0 => At(_ints, i) >= At(_ints, i - 1))
            /\ (i + 1 < Len(_ints) => At(_ints, i) >= At(_ints, i + 1))

C3_Witness ==
    /\ Returned
    /\ Len(ret) >= 2
    /\ \E i \in Indices(ret) : i > 0 /\ At(_ints, i) = At(_ints, i - 1)

\* C4: the result is in descending order of intensity, indices of equal
\* intensity in ascending order; [1, 5, 3, 5, 1] gives both peaks, the
\* earlier one first.
C4_DescendingStable ==
    Returned =>
        /\ \A p \in 1..Len(ret) : \A q \in (p + 1)..Len(ret) :
               \/ At(_ints, ret[p]) > At(_ints, ret[q])
               \/ At(_ints, ret[p]) = At(_ints, ret[q]) /\ ret[p] < ret[q]
        /\ _ints = << 1, 5, 3, 5, 1 >> => ret = << 1, 3 >>

C4_Witness ==
    Returned /\ _ints = << 1, 5, 3, 5, 1 >> /\ ret = << 1, 3 >>

\* C5 as stated: a strictly decreasing sequence of any length >= 1 has
\* exactly one peak, index 0.
C5_Original ==
    (Returned /\ Len(_ints) >= 1 /\ StrictlyDecreasing(_ints))
        => ret = << 0 >>

\* C5 as amended: a strictly decreasing sequence of length >= 2 has exactly
\* one peak, index 0 (a single sample has no descent and no peak).
C5_DecreasingPeakIsFirst ==
    (Returned /\ Len(_ints) >= 2 /\ StrictlyDecreasing(_ints))
        => ret = << 0 >>

C5_Witness ==
    Returned /\ Len(_ints) >= 3 /\ StrictlyDecreasing(_ints) /\ ret = << 0 >>

-----------------------------------------------------------------------------
(* Claims about the Range Reducer, checked under SpecRange.                *)

RangeReturned ==
    pc = "getMax"

\* the samples of the widget: x, and the y the maximum is taken of
SampleX ==
    IF widget = "TIC" THEN _rts ELSE _mzs

SampleY ==
    IF widget = "TIC" THEN _ints ELSE AbsAll(_ppm)

\* the y of the samples whose x is in the window, the upper end included
\* or not
YInWindow(hiIncluded) ==
    { SampleY[i] : i \in { k \in 1..Len(SampleX) :
          /\ xRange[1] <= SampleX[k]
          /\ IF hiIncluded THEN SampleX[k] <= xRange[2]
                           ELSE SampleX[k] < xRange[2] } }

MaxOf(S, floor) ==
    IF \E v \in S : v >= floor
    THEN CHOOSE v \in S : \A w \in S : w <= v
    ELSE floor

\* C6 as stated: the maximum is taken over exactly the samples with
\* lo <= x < hi, a sample at x = hi does not contribute.
C6_Original ==
    RangeReturned => ret = MaxOf(YInWindow(FALSE), 1)

\* C6 as amended: the maximum is taken over exactly the samples with
\* lo <= x <= hi, a sample at x = hi contributes; the sample of the
\* specification gives 7.
C6_ClosedWindow ==
    RangeReturned =>
        /\ ret = MaxOf(YInWindow(TRUE), 1)
        /\ (_mzs = << 0, 1, 2, 3, 4 >> /\ _ppm = << 2, -7, 3, -1, 5 >>
               /\ xRange = << 1, 3 >>) => ret = 7

C6_Witness ==
    /\ RangeReturned
    /\ ret > 1
    /\ \E i \in 1..Len(SampleX) :
           /\ SampleX[i] = xRange[2]
           /\ SampleY[i] = ret
           /\ \A k \in 1..Len(SampleX) : k # i => SampleY[k] < ret

\* C7: the result is the floor 1 when no sample is in the window, and
\* otherwise exactly the maximum y (TIC) or |y| (ppm) of the samples in the
\* window, also when that maximum is below 1.
C7_FloorOnlyWhenEmpty ==
    RangeReturned =>
        /\ YInWindow(TRUE) = {} => ret = 1
        /\ YInWindow(TRUE) # {} =>
               ret = CHOOSE v \in YInWindow(TRUE) :
                         \A w \in YInWindow(TRUE) : w <= v

-----------------------------------------------------------------------------
(* Claims about label placement, checked under SpecLabel.                  *)

\* two labels collide: their rectangles on the screen intersect, or their
\* anchors are less than 20 pixels apart horizontally
Collide(a, b) ==
    \/ Intersects(DeviceRect(a, xRange, currMaxY),
                  DeviceRect(b, xRange, currMaxY))
    \/ Abs(a.x - b.x) * ViewWidthPx < 20 * (xRange[2] - xRange[1])

\* C8: at a fixed zoom no two labels held in _peak_labels collide, and a
\* label that collides with a label placed before it is not in _peak_labels
\* when _add_label returns.
C8_NoCollidingLabels ==
    /\ \A i \in DOMAIN _peak_labels : \A k \in DOMAIN _peak_labels :
           i # k => ~Collide(_peak_labels[i], _peak_labels[k])
    /\ pc = "add_label" =>
           LET new == TextItem(args[2], args[3], args[4])
           IN  (\E k \in (DOMAIN _peak_labels) \ {args[1]} :
                    Collide(new, _peak_labels[k]))
                   => args[1] \notin DOMAIN _peak_labels

\* a third label was refused next to two retained ones, the nearer of them
\* the one with the lower id
C8_Witness ==
    /\ pc = "add_label"
    /\ Cardinality(DOMAIN _peak_labels) = 2
    /\ args[1] \notin DOMAIN _peak_labels
    /\ LET new == TextItem(args[2], args[3], args[4])
           lo  == CHOOSE k \in DOMAIN _peak_labels :
                      \A m \in DOMAIN _peak_labels : k <= m
           hi  == CHOOSE k \in DOMAIN _peak_labels :
                      \A m \in DOMAIN _peak_labels : m <= k
       IN  Collide(new, _peak_labels[lo]) /\ ~Collide(new, _peak_labels[hi])

-----------------------------------------------------------------------------
(* Claims about the labels of the peaks, checked under SpecDraw.           *)

\* the peaks that are offered a label: their intensity is among the
\* intensities of the visible x-range
EligiblePeaks ==
    { i \in Indices(_peak_indices) :
          Contains(_currentIntensitiesInRange, At(_ints, i)) }

Labelled(i) ==
    i \in DOMAIN _peak_labels

\* the label _draw_peak_label offers for peak i
PeakLabel(i) ==
    TextItem(At(_rts, i), At(_rts, i), At(_ints, i))

\* two peaks less than 20 pixels apart
ClosePeaks(i, k) ==
    /\ i # k
    /\ Abs(At(_rts, i) - At(_rts, k)) * ViewWidthPx
           < 20 * (xRange[2] - xRange[1])

\* the labels were drawn from an empty collection, by setTIC or after a
\* change of the x-range
LabelsDrawn ==
    raised = "none" /\ _existTIC

\* a highest eligible peak is labelled
HighestIsLabelled ==
    EligiblePeaks # {} =>
        \E i \in EligiblePeaks :
            /\ Labelled(i)
            /\ \A k \in EligiblePeaks : At(_ints, k) <= At(_ints, i)

\* an eligible peak without a label collides with the label of a peak at
\* least as high
DroppedForHigher ==
    \A i \in EligiblePeaks :
        ~Labelled(i) =>
            \E k \in DOMAIN _peak_labels :
                /\ At(_ints, k) >= At(_ints, i)
                /\ Collide(PeakLabel(i), _peak_labels[k])

\* C9 as stated: the highest eligible peak is labelled, a dropped label
\* collides with the label of a peak at least as high, and of two eligible
\* peaks less than 20 pixels apart only the higher one is labelled.
C9_Original ==
    LabelsDrawn =>
        /\ HighestIsLabelled
        /\ DroppedForHigher
        /\ \A i \in EligiblePeaks : \A k \in EligiblePeaks :
               (ClosePeaks(i, k) /\ At(_ints, i) > At(_ints, k))
                   => (Labelled(i) /\ ~Labelled(k))

\* C9 as amended: the highest eligible peak is labelled, a dropped label
\* collides with the label of a peak at least as high, and of two eligible
\* peaks less than 20 pixels apart at most one is labelled (the lower one
\* when the higher one was dropped for a peak higher still).
C9_HigherPeaksWin ==
    LabelsDrawn =>
        /\ HighestIsLabelled
        /\ DroppedForHigher
        /\ \A i \in EligiblePeaks : \A k \in EligiblePeaks :
               ClosePeaks(i, k) => ~(Labelled(i) /\ Labelled(k))

\* the x-range changed, and of two close eligible peaks the lower one is
\* labelled, the higher one having lost against a third
C9_Witness ==
    /\ LabelsDrawn
    /\ pc = "autoscaleYAxis"
    /\ \E i \in EligiblePeaks : \E k \in EligiblePeaks :
           /\ ClosePeaks(i, k)
           /\ At(_ints, i) > At(_ints, k)
           /\ ~Labelled(i)
           /\ Labelled(k)

-----------------------------------------------------------------------------
(* Claims about sequences of setTIC calls, checked under SpecWidget.       *)

\* what setTIC places for a chromatogram with samples: the retention times
\* in minutes, the relative intensities, their peaks, the y-axis scaled
\* and the labels drawn
Rebuilt(self, chromatogram) ==
    LET loaded   == [self EXCEPT !._rts = chromatogram.rts,
                                 !._ints = chromatogram.ints]
        relative == _relative_ints(_rts_in_min(loaded))
        found    == [relative EXCEPT
                        !._peak_indices = _find_Peak(relative._ints)]
    IN  IF Len(chromatogram.rts) = 0 THEN loaded
        ELSE redrawPlot(_autoscaleYAxis(found))

\* C10: after every setTIC call the labels the widget holds are exactly
\* the labels placed for the peaks of the chromatogram just given, those a
\* new widget showing the same x-range places for it; no label of an
\* earlier chromatogram remains.
C10_LabelsRebuilt ==
    (pc = "setTIC" /\ raised = "none") =>
        _peak_labels =
            Rebuilt([NewTICWidget EXCEPT !.xRange = xRange],
                    args[1])._peak_labels

-----------------------------------------------------------------------------
(* Claims about _calculate_closest_datapoint, checked under SpecClosest.   *)

ClosestReturned ==
    pc = "calculate_closest_datapoint"

\* the last index of the retention times
LastIdx ==
    Len(_rts) - 1

\* the clicked position lies behind the last sample
BehindLast ==
    /\ ClosestReturned
    /\ Len(_rts) >= 1
    /\ args[1] > At(_rts, LastIdx)

\* C12 as stated: for sorted samples, equal x among them, and a position
\* greater than the last sample's x, the last index n - 1 is returned and
\* nothing is raised.
C12_Original ==
    BehindLast => (raised = "none" /\ ret = LastIdx)

\* C12 as amended: for a position behind the last sample nothing is raised
\* and the index returned is n - 1, unless the last two samples have the
\* same x: then it is n - 2, a sample at the x of the last one.
C12_ClampedToLastX ==
    BehindLast =>
        /\ raised = "none"
        /\ ret = IF Len(_rts) >= 2 /\ At(_rts, LastIdx - 1) = At(_rts, LastIdx)
                 THEN LastIdx - 1
                 ELSE LastIdx
        /\ At(_rts, ret) = At(_rts, LastIdx)

C12_Witness ==
    /\ BehindLast
    /\ Len(_rts) = 3
    /\ At(_rts, 0) < At(_rts, 1)
    /\ At(_rts, 1) = At(_rts, 2)
    /\ ret = 1

\* C15: for every non-empty sorted sample sequence and every position, the
\* index returned is one of 0 .. n - 1 and no sample lies closer to the
\* position than the sample at that index.
C15_ClosestIsMinimal ==
    (ClosestReturned /\ Len(_rts) >= 1) =>
        /\ raised = "none"
        /\ ret \in 0..LastIdx
        /\ \A k \in 0..LastIdx :
               Abs(At(_rts, ret) - args[1]) <= Abs(At(_rts, k) - args[1])

\* a position between the first two of three samples, closer to the second
C15_Witness ==
    /\ ClosestReturned
    /\ Len(_rts) = 3
    /\ At(_rts, 0) < args[1]
    /\ args[1] < At(_rts, 1)
    /\ At(_rts, 1) - args[1] < args[1] - At(_rts, 0)
    /\ ret = 1

-----------------------------------------------------------------------------
(* Claims about the mouse on the widget, checked under SpecMouse.          *)

\* C11: in a widget with no samples loaded (new, or given an empty
\* chromatogram) a click inside the plot and a double click return without
\* an uncaught exception and emit no signal.
C11_NoSamplesIgnored ==
    (/\ Len(_rts) = 0
     /\ \/ pc = "clicked" /\ args[1]
        \/ pc = "mouseDoubleClickEvent")
        => (raised = "none" /\ emitted = << >>)

-----------------------------------------------------------------------------
(* A claim about _add_label called twice, checked under SpecLabel.         *)

\* C13: a call of _add_label that repeats the arguments of the call before
\* it leaves _peak_labels and the label items on the plot as that call left
\* them: no item more, none held by nothing.
C13_RepeatedAddLabel ==
    [][(pc = "add_label" /\ pc' = "add_label" /\ args' = args)
           => (_peak_labels' = _peak_labels /\ orphanItems' = orphanItems)]_vars

-----------------------------------------------------------------------------
(* A claim about SequenceIonsWidget.clear, checked under SpecSequence.     *)

\* C14: after clear() the sequence, seqLength, prefix and suffix of the
\* peptide are those of a new widget, and so are the width and the height
\* the next updateWindowSize derives.
C14_ClearResets ==
    pc = "clear" =>
        /\ _pep = NewSequenceIonsWidget._pep
        /\ updateWindowSize(SeqSelf).WIDTH = NewSequenceIonsWidget.WIDTH
        /\ updateWindowSize(SeqSelf).HEIGHT = NewSequenceIonsWidget.HEIGHT

-----------------------------------------------------------------------------
(* A claim about the peak indices setTIC keeps, checked under SpecWidget.  *)

\* C16: after every call of setTIC, with an empty chromatogram or not,
\* _peak_indices is what _find_Peak gives for the intensities stored, so
\* every peak index is an index of _ints.
C16_PeakIndicesCurrent ==
    pc = "setTIC" =>
        /\ _peak_indices = _find_Peak(_ints)
        /\ \A p \in 1..Len(_peak_indices) : _peak_indices[p] \in 0..(Len(_ints) - 1)

-----------------------------------------------------------------------------
(* A claim about the labels behind a change of the x-range, checked under  *)
(* SpecDraw.                                                               *)

\* the x-range was changed, and _autoscaleYAxis went on to _redrawLabels
LabelsRedrawn ==
    /\ pc = "autoscaleYAxis"
    /\ raised = "none"
    /\ xRange # << 0, 1 >>
    /\ currMaxY # 0

\* C17: after a change of the x-range is handled, every label of
\* _peak_labels is the label of a peak whose retention time lies in the
\* x-range shown; no peak outside of it is labelled, whatever its intensity.
C17_LabelsInsideWindow ==
    LabelsRedrawn =>
        \A k \in DOMAIN _peak_labels :
            xRange[1] <= At(_rts, k) /\ At(_rts, k) <= xRange[2]

-----------------------------------------------------------------------------
(* Claims about the region and the labels on the plot, checked under       *)
(* SpecMouse.                                                              *)

\* C18: when redrawPlot returns (setTIC calls it last), every label of
\* _peak_labels is an item of the plot, and so is the region of _region.
C18_RecordedIsDisplayed ==
    (pc = "setTIC" /\ _existTIC /\ raised = "none") =>
        /\ \A k \in DOMAIN _peak_labels : _peak_labels[k].shown
        /\ _region # None => _region[1].shown

\* C19: for one committed drag of the region (one sigRegionChangeFinished)
\* the widget emits sigSeleRTRegionChangeFinished exactly once, with the
\* start and the end of the region, however many clicks were handled since
\* the region was made.
C19_OneEmissionPerDrag ==
    (pc = "sigRegionChangeFinished" /\ raised = "none") =>
        /\ Len(emitted) = 1
        /\ emitted[1].signal = "sigSeleRTRegionChangeFinished"
        /\ emitted[1].args = _region[1].region

====
